---- MODULE Spec2Model ----
(***************************************************************************)
(* A model of the SEP scraper: the embedding generator (embeddings.py),    *)
(* the persistence gateway (supabase_client.py), the extractor             *)
(* (simple_scraper.py) and the service layer (simple_api.py).              *)
(*                                                                         *)
(* Requests are handled one at a time, so every operation is one atomic    *)
(* action.  The outcome of every external call (the embedding provider,    *)
(* the datastore, the web site) is an input of the action, drawn from a    *)
(* small set.  `last` records the operation that ran last, with its inputs *)
(* and what it returned, so that properties of single calls can be stated  *)
(* as state predicates; a call starts when no call is under way           *)
(* (last.op = "idle") and Return hands the result back to the caller.      *)
(*                                                                         *)
(* Texts (titles, markdown, queries) are finite sequences of characters;   *)
(* URLs are sequences of tokens (see the service layer below).             *)
(***************************************************************************)
EXTENDS Integers, Sequences, FiniteSets, TLC

VARIABLES
  entry_metadata,   \* table entry_metadata: a sequence of rows
  entry_content,    \* table entry_content: a sequence of rows
  last              \* the operation that ran last: inputs, calls made, result

vars == <<entry_metadata, entry_content, last>>

\* Python's None, and the value of a field a dict or row does not hold.
None == "None"

Min(a, b) == IF a < b THEN a ELSE b

\* All sequences over S of length 0..n.
SeqsUpTo(S, n) == UNION {[1..k -> S] : k \in 0..n}

RECURSIVE SumSeq(_)
SumSeq(s) == IF s = <<>> THEN 0 ELSE Head(s) + SumSeq(Tail(s))

\* No call is under way.
Idle == last.op = "idle"

\* The call that ran last returns to its caller.
Return ==
  /\ ~Idle
  /\ last' = [op |-> "idle"]
  /\ UNCHANGED <<entry_metadata, entry_content>>

----------------------------------------------------------------------------
(* Bounds of the model.                                                    *)

\* Longest text handed to generate_embedding in SpecEmbed.
MaxTextLen == 2
\* Largest max_retries handed to generate_embedding in SpecEmbed.
MaxRetries == 4
\* Largest limit handed to search_by_text in SpecSearch.
MaxLimit == 3
\* Largest limit (page size) handed to regenerate_embeddings in SpecRegen.
MaxPage == 2
\* Most entries the datastore holds in SpecApi.
MaxStored == 1
\* Most heading elements of a fragment handed to extract_toc in SpecToc.
MaxHeadings == 3
\* Most names in an author line in SpecAuthors.
MaxAuthors == 3

----------------------------------------------------------------------------
(* embeddings.py                                                           *)

\* generate_embedding's default max_retries.
DefaultMaxRetries == 3
\* text[:20000]
EmbedCharBudget == 20000

Whitespace == {" "}
TextChars == {" ", "a"}
EmbedTexts == SeqsUpTo(TextChars, MaxTextLen)

\* What one call of openai.embeddings.create does: it raises ("fail") or
\* returns a response carrying a vector.
Vectors == {"v1", "v2"}
CallOutcomes == {"fail"} \cup Vectors

\* str.strip(): leading and trailing whitespace removed.
RECURSIVE LStrip(_)
LStrip(s) == IF s # <<>> /\ Head(s) \in Whitespace THEN LStrip(Tail(s)) ELSE s

RECURSIVE RStripWs(_)
RStripWs(s) ==
  IF s # <<>> /\ s[Len(s)] \in Whitespace THEN RStripWs(SubSeq(s, 1, Len(s) - 1)) ELSE s

Strip(s) == RStripWs(LStrip(s))

\* `not text or not text.strip()`
IsBlank(text) == text = <<>> \/ Strip(text) = <<>>

Truncate(text) == SubSeq(text, 1, Min(Len(text), EmbedCharBudget))

\* Mutant of the retry loop: the handler re-raises after the last attempt.
RECURSIVE EmbedLoopRaises(_, _, _, _, _)
EmbedLoopRaises(attempt, max_retries, outcomes, calls, delays) ==
  IF attempt >= max_retries
  THEN [result |-> None, calls |-> calls, delays |-> delays, raised |-> FALSE]
  ELSE IF outcomes[attempt + 1] # "fail"
  THEN [result |-> outcomes[attempt + 1], calls |-> calls + 1,
        delays |-> delays, raised |-> FALSE]
  ELSE IF attempt < max_retries - 1
  THEN EmbedLoopRaises(attempt + 1, max_retries, outcomes, calls + 1,
                       Append(delays, 2 ^ attempt))
  ELSE [result |-> None, calls |-> calls + 1, delays |-> delays, raised |-> TRUE]

\* Mutant of the retry loop: the backoff is 2^(attempt+1).
RECURSIVE EmbedLoopSlow(_, _, _, _, _)
EmbedLoopSlow(attempt, max_retries, outcomes, calls, delays) ==
  IF attempt >= max_retries
  THEN [result |-> None, calls |-> calls, delays |-> delays, raised |-> FALSE]
  ELSE IF outcomes[attempt + 1] # "fail"
  THEN [result |-> outcomes[attempt + 1], calls |-> calls + 1,
        delays |-> delays, raised |-> FALSE]
  ELSE IF attempt < max_retries - 1
  THEN EmbedLoopSlow(attempt + 1, max_retries, outcomes, calls + 1,
                     Append(delays, 2 ^ (attempt + 1)))
  ELSE [result |-> None, calls |-> calls + 1, delays |-> delays, raised |-> FALSE]

\* `for attempt in range(max_retries)`: the remote call; on success return the
\* vector; on failure sleep 2**attempt unless this was the last attempt, and
\* then return None.  A loop that runs no iteration falls off the function,
\* which returns None.  outcomes[k] is the outcome of the k-th remote call.
RECURSIVE EmbedLoop(_, _, _, _, _)
EmbedLoop(attempt, max_retries, outcomes, calls, delays) ==
  IF attempt >= max_retries
  THEN [result |-> None, calls |-> calls, delays |-> delays, raised |-> FALSE]
  ELSE IF outcomes[attempt + 1] # "fail"
  THEN [result |-> outcomes[attempt + 1], calls |-> calls + 1,
        delays |-> delays, raised |-> FALSE]
  ELSE IF attempt < max_retries - 1
  THEN EmbedLoop(attempt + 1, max_retries, outcomes, calls + 1,
                 Append(delays, 2 ^ attempt))
  ELSE [result |-> None, calls |-> calls + 1, delays |-> delays, raised |-> FALSE]

generate_embedding_raises(text, api_key, max_retries, outcomes) ==
  IF IsBlank(text) \/ ~api_key
  THEN [result |-> None, calls |-> 0, delays |-> <<>>, raised |-> FALSE]
  ELSE EmbedLoopRaises(0, max_retries, outcomes, 0, <<>>)

generate_embedding_slow(text, api_key, max_retries, outcomes) ==
  IF IsBlank(text) \/ ~api_key
  THEN [result |-> None, calls |-> 0, delays |-> <<>>, raised |-> FALSE]
  ELSE EmbedLoopSlow(0, max_retries, outcomes, 0, <<>>)

\* generate_embedding without the test for blank text.
generate_embedding_sends_blank(text, api_key, max_retries, outcomes) ==
  IF ~api_key
  THEN [result |-> None, calls |-> 0, delays |-> <<>>, raised |-> FALSE]
  ELSE EmbedLoop(0, max_retries, outcomes, 0, <<>>)

\* generate_embedding(text, max_retries) with the process holding an API key
\* or not.  result: the vector or None; calls: remote calls issued; delays:
\* the arguments of time.sleep, in order; raised: an exception left the
\* function.
generate_embedding(text, api_key, max_retries, outcomes) ==
  IF IsBlank(text)
  THEN [result |-> None, calls |-> 0, delays |-> <<>>, raised |-> FALSE]
  ELSE IF ~api_key
  THEN [result |-> None, calls |-> 0, delays |-> <<>>, raised |-> FALSE]
  ELSE EmbedLoop(0, max_retries, outcomes, 0, <<>>)

GenerateEmbedding ==
  /\ Idle
  /\ \E text \in EmbedTexts, api_key \in BOOLEAN, n \in 0..MaxRetries :
      \E outcomes \in [1..n -> CallOutcomes] :
        LET r == generate_embedding(text, api_key, n, outcomes) IN
        /\ last' = [op |-> "generate_embedding", text |-> text, api_key |-> api_key,
                    max_retries |-> n, outcomes |-> outcomes, sent |-> Truncate(text),
                    result |-> r.result, calls |-> r.calls, delays |-> r.delays,
                    raised |-> r.raised]
        /\ UNCHANGED <<entry_metadata, entry_content>>

\* generate_article_embeddings giving up on the content once the title has
\* no embedding.
generate_article_embeddings_stops(title, content, api_key, title_outcomes, content_outcomes) ==
  LET t == generate_embedding(title, api_key, DefaultMaxRetries, title_outcomes)
      c == generate_embedding(content, api_key, DefaultMaxRetries, content_outcomes)
  IN IF t.raised \/ t.result = None
     THEN [title_embedding |-> None, content_embedding |-> None, raised |-> t.raised,
           title_calls |-> t.calls, content_calls |-> 0]
     ELSE [title_embedding |-> t.result, content_embedding |-> c.result,
           raised |-> c.raised, title_calls |-> t.calls, content_calls |-> c.calls]

\* generate_article_embeddings(title, content): the two embeddings are
\* generated one after the other with the default max_retries.  A field that
\* is None is a key the returned dict does not hold.
generate_article_embeddings(title, content, api_key, title_outcomes, content_outcomes) ==
  LET t == generate_embedding(title, api_key, DefaultMaxRetries, title_outcomes)
      c == generate_embedding(content, api_key, DefaultMaxRetries, content_outcomes)
  IN IF t.raised
     THEN [title_embedding |-> None, content_embedding |-> None, raised |-> TRUE,
           title_calls |-> t.calls, content_calls |-> 0]
     ELSE [title_embedding |-> t.result, content_embedding |-> c.result,
           raised |-> c.raised, title_calls |-> t.calls, content_calls |-> c.calls]

DefaultOutcomes == [1..DefaultMaxRetries -> CallOutcomes]

GenerateArticleEmbeddings ==
  /\ Idle
  /\ \E title \in EmbedTexts, content \in EmbedTexts, api_key \in BOOLEAN :
      \E to \in DefaultOutcomes, co \in DefaultOutcomes :
        LET r == generate_article_embeddings(title, content, api_key, to, co) IN
        /\ last' = [op |-> "generate_article_embeddings", title |-> title,
                    content |-> content, api_key |-> api_key,
                    title_outcomes |-> to, content_outcomes |-> co,
                    title_embedding |-> r.title_embedding,
                    content_embedding |-> r.content_embedding,
                    title_calls |-> r.title_calls, content_calls |-> r.content_calls,
                    raised |-> r.raised]
        /\ UNCHANGED <<entry_metadata, entry_content>>

BlankCase ==
  /\ last.op = "generate_embedding"
  /\ \A i \in DOMAIN last.text : last.text[i] \in Whitespace

\* C16: generate_embedding on blank input (empty or whitespace-only text)
\* returns absent and makes zero remote embedding calls and zero backoff
\* sleeps.
C16_BlankNoCalls ==
  BlankCase =>
    last.result = None /\ last.calls = 0 /\ last.delays = <<>> /\ ~last.raised

\* A whitespace-only text, with an API key and a service whose first call
\* would have succeeded.
C16_Witness ==
  /\ BlankCase /\ last.text # <<>> /\ last.api_key
  /\ last.max_retries >= 1 /\ last.outcomes[1] \in Vectors
  /\ last.result = None /\ last.calls = 0

ArticleCase == last.op = "generate_article_embeddings"

\* C14: generate_article_embeddings attempts the title embedding and the
\* content embedding independently: each is present in the result if and only
\* if its own embed call returned a vector, and the failure of one never
\* prevents the attempt or the presence of the other.
C14_IndependentEmbeddings ==
  ArticleCase =>
    LET t == generate_embedding(last.title, last.api_key, DefaultMaxRetries,
                                last.title_outcomes)
        c == generate_embedding(last.content, last.api_key, DefaultMaxRetries,
                                last.content_outcomes)
    IN /\ ~last.raised
       /\ last.title_embedding = t.result
       /\ last.content_embedding = c.result
       /\ last.title_calls = t.calls
       /\ last.content_calls = c.calls

\* All calls for the title failed and the content still got its embedding.
C14_Witness ==
  /\ ArticleCase /\ last.api_key
  /\ last.title_calls = DefaultMaxRetries /\ last.title_embedding = None
  /\ last.content_calls >= 1 /\ last.content_embedding \in Vectors

\* The index of the first remote call that succeeds, 0 when none of the first
\* n does.
FirstSuccess(outcomes, n) ==
  IF \E k \in 1..n : outcomes[k] # "fail"
  THEN CHOOSE k \in 1..n :
         outcomes[k] # "fail" /\ \A j \in 1..(k - 1) : outcomes[j] = "fail"
  ELSE 0

EmbedCase ==
  /\ last.op = "generate_embedding"
  /\ ~IsBlank(last.text)
  /\ last.max_retries >= 1

\* C6: generate_embedding on non-blank text with max_retries = N >= 1 issues
\* at most N remote calls, stops at the first successful call and returns its
\* vector, returns None once N calls have failed, and never raises.
C6_BoundedRetry ==
  EmbedCase =>
    LET n == last.max_retries
        first == FirstSuccess(last.outcomes, n)
    IN /\ last.calls <= n
       /\ ~last.raised
       /\ last.api_key /\ first > 0 =>
            last.calls = first /\ last.result = last.outcomes[first]
       /\ last.api_key /\ first = 0 => last.calls = n /\ last.result = None
       /\ last.result # None =>
            /\ last.calls >= 1
            /\ last.result = last.outcomes[last.calls]
            /\ \A j \in 1..(last.calls - 1) : last.outcomes[j] = "fail"

\* Every call of the default budget fails: None after exactly three calls.
C6_Witness ==
  /\ EmbedCase
  /\ last.api_key
  /\ last.max_retries = DefaultMaxRetries
  /\ \A k \in 1..DefaultMaxRetries : last.outcomes[k] = "fail"
  /\ last.calls = DefaultMaxRetries
  /\ last.result = None

\* C7: the delay slept after failed attempt k (from 0) is 2^k seconds, no
\* delay follows the last attempt, and with the default of 3 attempts the
\* delays of one call sum to at most 4 seconds.
C7_Backoff ==
  EmbedCase =>
    /\ \A k \in 1..Len(last.delays) :
         last.delays[k] = 2 ^ (k - 1) /\ last.outcomes[k] = "fail"
    /\ last.calls >= 1 => Len(last.delays) = last.calls - 1
    /\ last.calls = 0 => last.delays = <<>>
    /\ last.max_retries = DefaultMaxRetries => SumSeq(last.delays) <= 4

\* Three failed attempts of the default budget: delays 1 and 2, none after
\* the third.
C7_Witness ==
  /\ EmbedCase
  /\ last.max_retries = DefaultMaxRetries
  /\ last.calls = DefaultMaxRetries
  /\ last.result = None
  /\ last.delays = <<1, 2>>

----------------------------------------------------------------------------
(* supabase_client.py: the two tables and save_entry / get_entry           *)

\* SupabaseManager() as simple_api.py constructs it: enable_embeddings = True,
\* and the process holds an API key.
EnableEmbeddings == TRUE
HasApiKey == TRUE

\* Titles and markdown bodies are texts; "K" is the upper-case form of "k".
Titles == {<<"K">>, <<"h">>}
Markdowns == {<<"k">>, <<"h">>, <<>>}
EntryIds == {"kant", "hume"}

\* The arguments of one save_entry call besides entry_id.  The fields other
\* than title and markdown are opaque values that differ from article to
\* article.
Article(t, m) ==
  [title |-> t, markdown |-> m,
   date_issued |-> <<"issued", t>>, date_modified |-> <<"modified", m>>,
   preamble |-> <<"preamble", t>>, content_hash |-> <<"sha256", m>>,
   html |-> <<"html", m>>, toc |-> <<"toc", m>>, authors |-> <<"authors", t>>]

AllArticles == {Article(t, m) : t \in Titles, m \in Markdowns}

\* The articles handed to save_entry: one with a body, one whose markdown is
\* empty (no embedding is attempted for it), one with another body.
Articles == {Article(<<"K">>, <<"k">>), Article(<<"h">>, <<>>), Article(<<"h">>, <<"h">>)}

\* The remote-call outcomes drawn for the embeddings of store operations:
\* every attempt fails, or the second attempt succeeds.
AllFail == [k \in 1..DefaultMaxRetries |-> "fail"]
SecondOk == [k \in 1..DefaultMaxRetries |-> IF k = 2 THEN "v1" ELSE "fail"]
StoreOutcomes == {AllFail, SecondOk}

\* A Python value is truthy: here a text that is not empty.
Truthy(text) == text # <<>>

\* The entry ids some row of a table carries.
IdsIn(table) == {table[i].entry_id : i \in DOMAIN table}

\* .eq("entry_id", entry_id): the rows of a table with that entry_id.
RowsOf(table, entry_id) == SelectSeq(table, LAMBDA r : r.entry_id = entry_id)

\* The row an insert of the metadata dict creates: columns the dict does not
\* name are NULL.
MetadataRow(entry_id, a, emb) ==
  [entry_id |-> entry_id, title |-> a.title, last_updated |-> a.date_modified,
   published |-> a.date_issued, preamble |-> a.preamble,
   content_hash |-> a.content_hash, authors |-> a.authors,
   title_embedding |-> emb.title_embedding,
   content_embedding |-> emb.content_embedding]

\* A metadata row after update(metadata): the columns the dict names are
\* overwritten, the embedding columns only when the dict holds them.
UpdatedMetadataRow(row, a, emb) ==
  [row EXCEPT !.title = a.title, !.last_updated = a.date_modified,
              !.published = a.date_issued, !.preamble = a.preamble,
              !.content_hash = a.content_hash, !.authors = a.authors,
              !.title_embedding =
                 IF emb.title_embedding # None THEN emb.title_embedding ELSE @,
              !.content_embedding =
                 IF emb.content_embedding # None THEN emb.content_embedding ELSE @]

ContentRow(entry_id, a) ==
  [entry_id |-> entry_id, content |-> a.html, markdown |-> a.markdown, toc |-> a.toc]

\* update(metadata).eq("entry_id", entry_id): every matching row is
\* rewritten.  No matching row: no change and no error.  (The updated_at
\* column is not modelled; whoever orders by it gets the rows in an order of
\* the environment's choice.)
UpdateMetadata(table, entry_id, a, emb) ==
  [i \in 1..Len(table) |->
     IF table[i].entry_id = entry_id
     THEN UpdatedMetadataRow(table[i], a, emb) ELSE table[i]]

\* update(content).eq("entry_id", entry_id), likewise.
UpdateContent(table, entry_id, a) ==
  [i \in 1..Len(table) |->
     IF table[i].entry_id = entry_id THEN ContentRow(entry_id, a) ELSE table[i]]

\* The embeddings save_entry puts into the metadata dict (lines 113-124).
SaveEmbeddings(a, title_outcomes, content_outcomes, gen_raises) ==
  LET none == [title_embedding |-> None, content_embedding |-> None,
               attempted |-> FALSE, raised |-> FALSE]
  IN IF EnableEmbeddings /\ Truthy(a.markdown) /\ Truthy(a.title)
     THEN LET g == generate_article_embeddings(a.title, a.markdown, HasApiKey,
                                                title_outcomes, content_outcomes)
          IN IF gen_raises \/ g.raised
             THEN [none EXCEPT !.attempted = TRUE, !.raised = TRUE]
             ELSE [title_embedding |-> g.title_embedding,
                   content_embedding |-> g.content_embedding,
                   attempted |-> TRUE, raised |-> FALSE]
     ELSE none

\* Mutant of save_entry: it inserts without looking the entry up.
save_entry_always_inserts(metadata, content, entry_id, a, emb, fail_at) ==
  IF fail_at = 1 THEN [metadata |-> metadata, content |-> content, ret |-> FALSE]
  ELSE IF fail_at = 2 THEN [metadata |-> metadata, content |-> content, ret |-> FALSE]
  ELSE IF fail_at = 3
  THEN [metadata |-> Append(metadata, MetadataRow(entry_id, a, emb)),
        content |-> content, ret |-> FALSE]
  ELSE [metadata |-> Append(metadata, MetadataRow(entry_id, a, emb)),
        content |-> Append(content, ContentRow(entry_id, a)), ret |-> TRUE]

\* save_entry on tables (metadata, content).  The datastore calls are, in
\* order, 1: the select of the entry, 2: the write of the metadata row, 3: the
\* write of the content row; fail_at names the call that raises (0: none).
\* Whatever raises inside the try block makes save_entry return False; what
\* was written before stays written.
save_entry(metadata, content, entry_id, a, emb, fail_at) ==
  LET exists == Len(RowsOf(metadata, entry_id)) > 0
      metadata2 ==
        IF exists
        THEN UpdateMetadata(metadata, entry_id, a, emb)
        ELSE Append(metadata, MetadataRow(entry_id, a, emb))
      content2 ==
        IF exists
        THEN UpdateContent(content, entry_id, a)
        ELSE Append(content, ContentRow(entry_id, a))
  IN IF fail_at = 1 THEN [metadata |-> metadata, content |-> content, ret |-> FALSE]
     ELSE IF fail_at = 2 THEN [metadata |-> metadata, content |-> content, ret |-> FALSE]
     ELSE IF fail_at = 3 THEN [metadata |-> metadata2, content |-> content, ret |-> FALSE]
     ELSE [metadata |-> metadata2, content |-> content2, ret |-> TRUE]

SaveEntry ==
  /\ Idle
  /\ \E entry_id \in EntryIds, a \in Articles, fail_at \in 0..3,
        gen_raises \in BOOLEAN, to \in StoreOutcomes, co \in StoreOutcomes :
       LET emb == SaveEmbeddings(a, to, co, gen_raises)
           r == save_entry(entry_metadata, entry_content, entry_id, a, emb, fail_at)
       IN /\ entry_metadata' = r.metadata
          /\ entry_content' = r.content
          /\ last' = [op |-> "save_entry", entry_id |-> entry_id, article |-> a,
                      fail_at |-> fail_at, emb |-> emb, ret |-> r.ret,
                      metadata_before |-> RowsOf(entry_metadata, entry_id),
                      content_before |-> RowsOf(entry_content, entry_id)]

\* get_entry: the metadata row joined with the content row, None when either
\* is missing or a read raises.
get_entry(metadata, content, entry_id, read_fails) ==
  LET m == RowsOf(metadata, entry_id)
      c == RowsOf(content, entry_id)
  IN IF ~read_fails /\ Len(m) > 0 /\ Len(c) > 0
     THEN [found |-> TRUE, metadata |-> <<m[1]>>, content |-> <<c[1]>>]
     ELSE [found |-> FALSE, metadata |-> <<>>, content |-> <<>>]

GetEntry ==
  /\ Idle
  /\ \E entry_id \in EntryIds, read_fails \in BOOLEAN :
       LET r == get_entry(entry_metadata, entry_content, entry_id, read_fails) IN
       /\ last' = [op |-> "get_entry", entry_id |-> entry_id,
                   read_fails |-> read_fails, found |-> r.found,
                   metadata |-> r.metadata, content |-> r.content]
       /\ UNCHANGED <<entry_metadata, entry_content>>

SaveCase == last.op = "save_entry"

\* C1: the store holds at most one metadata row and at most one content row
\* per entry_id, and after a save_entry that returned True the entry has
\* exactly one metadata row, carrying the title of that call (so after two
\* successful calls with different titles: the title of the second).
C1_OneRecordPerEntry ==
  /\ \A id \in IdsIn(entry_metadata) : Len(RowsOf(entry_metadata, id)) = 1
  /\ \A id \in IdsIn(entry_content) : Len(RowsOf(entry_content, id)) = 1
  /\ SaveCase /\ last.ret =>
       /\ Len(RowsOf(entry_metadata, last.entry_id)) = 1
       /\ RowsOf(entry_metadata, last.entry_id)[1].title = last.article.title

\* A second successful save_entry of an entry that an earlier call stored in
\* full under another title.
C1_Witness ==
  /\ SaveCase
  /\ last.ret
  /\ Len(last.metadata_before) = 1
  /\ Len(last.content_before) = 1
  /\ last.metadata_before[1].title # last.article.title
  /\ Len(entry_metadata) = 2

\* C18: after any sequence of save_entry calls in which individual
\* datastore writes may fail, whenever save_entry(entry_id, ...) returns True a
\* following get_entry(entry_id) with working reads returns an entry (not
\* None) whose title and markdown are those of that call; an earlier call that
\* failed between its metadata write and its content write does not leave the
\* entry without a content record for good.
C18_SavedIsReadable ==
  SaveCase /\ last.ret =>
    LET g == get_entry(entry_metadata, entry_content, last.entry_id, FALSE) IN
    /\ g.found
    /\ g.metadata[1].title = last.article.title
    /\ g.content[1].markdown = last.article.markdown

\* The metadata row holds the article's core fields.
CoreInMetadata(row, a) ==
  /\ row.title = a.title
  /\ row.last_updated = a.date_modified
  /\ row.published = a.date_issued
  /\ row.preamble = a.preamble
  /\ row.authors = a.authors
  /\ row.content_hash = a.content_hash

\* The content row holds the article's markdown and toc.
CoreInContent(row, a) == row.markdown = a.markdown /\ row.toc = a.toc

\* An embedding column after a save: what was produced, else what it held.
EmbeddingKept(now, produced, before) ==
  IF produced # None THEN now = produced ELSE now = before

\* C8: whenever the datastore calls of save_entry succeed it returns True and
\* the article's core fields are stored (title, dates, preamble, authors,
\* content_hash in the metadata row; markdown and toc in the content row),
\* whatever the embedding generation did, and of the embedding columns only
\* those produced are written.
C8_CoreFieldsPersisted ==
  SaveCase /\ last.fail_at = 0 =>
    LET m == RowsOf(entry_metadata, last.entry_id)
        c == RowsOf(entry_content, last.entry_id)
        te0 == IF last.metadata_before = <<>> THEN None
               ELSE last.metadata_before[1].title_embedding
        ce0 == IF last.metadata_before = <<>> THEN None
               ELSE last.metadata_before[1].content_embedding
    IN /\ last.ret
       /\ Len(m) = 1 /\ CoreInMetadata(m[1], last.article)
       /\ Len(c) = 1 /\ CoreInContent(c[1], last.article)
       /\ EmbeddingKept(m[1].title_embedding, last.emb.title_embedding, te0)
       /\ EmbeddingKept(m[1].content_embedding, last.emb.content_embedding, ce0)

----------------------------------------------------------------------------
(* supabase_client.py: search_by_text                                      *)

Queries == {<<"k">>, <<"K">>}

\* Lower-case form of a character, and of a text.
LowerChar(c) == IF c = "K" THEN "k" ELSE IF c = "H" THEN "h" ELSE c
Lower(text) == [i \in 1..Len(text) |-> LowerChar(text[i])]

\* text contains part as a substring.
Contains(text, part) ==
  \E i \in 0..(Len(text) - Len(part)) : SubSeq(text, i + 1, i + Len(part)) = part

\* column ILIKE '%query%': case-insensitive substring match.
ILike(text, query) == Contains(Lower(text), Lower(query))

\* The permutations of 1..n: the orders in which the datastore may hand out
\* the rows of an unordered select.
Perms(n) == {p \in [1..n -> 1..n] : \A i, j \in 1..n : p[i] = p[j] => i = j}

\* The first `limit` elements of a sequence (all of it when shorter).
Limit(rows, limit) == SubSeq(rows, 1, Min(Len(rows), limit))

\* The rows of a table in the order the datastore scans them.
Scan(table, order) == [i \in 1..Len(table) |-> table[order[i]]]

\* select(...).ilike("title", query).limit(limit): the first `limit` matching
\* rows of the scan.
SelectByTitle(table, order, query, limit) ==
  Limit(SelectSeq(Scan(table, order), LAMBDA r : ILike(r.title, query)), limit)

\* select("entry_id").ilike("markdown", query).limit(limit), likewise.
SelectByMarkdown(table, order, query, limit) ==
  Limit(SelectSeq(Scan(table, order), LAMBDA r : ILike(r.markdown, query)), limit)

\* The columns search_by_text selects from a metadata row.
Summary(row) == [entry_id |-> row.entry_id, title |-> row.title]

RECURSIVE Flatten(_)
Flatten(seqs) == IF seqs = <<>> THEN <<>> ELSE Head(seqs) \o Flatten(Tail(seqs))

\* Mutant of search_by_text: the entries already found are not excluded.
search_by_text_no_exclusion(metadata, content, query, limit, meta_order, content_order, fails) ==
  LET results == SelectByTitle(metadata, meta_order, query, limit)
      content_rows == SelectByMarkdown(content, content_order, query, limit - Len(results))
      additional == Flatten([i \in 1..Len(content_rows) |->
                               RowsOf(metadata, content_rows[i].entry_id)])
  IN IF fails THEN <<>>
     ELSE IF Len(results) < limit
     THEN [i \in 1..(Len(results) + Len(additional)) |->
             Summary((results \o additional)[i])]
     ELSE [i \in 1..Len(results) |-> Summary(results[i])]

\* search_by_text(query, limit): the title matches, at most limit; when fewer
\* than limit, the entry ids of at most limit - len(results) content rows whose
\* markdown matches, without those already found, each looked up in
\* entry_metadata and appended.  Any datastore call raising gives [].
search_by_text(metadata, content, query, limit, meta_order, content_order, fails) ==
  LET results == SelectByTitle(metadata, meta_order, query, limit)
      remaining == limit - Len(results)
      content_rows == SelectByMarkdown(content, content_order, query, remaining)
      existing_ids == IdsIn(results)
      new_rows == SelectSeq(content_rows, LAMBDA r : r.entry_id \notin existing_ids)
      additional_entries == Flatten([i \in 1..Len(new_rows) |->
                                       RowsOf(metadata, new_rows[i].entry_id)])
  IN IF fails THEN <<>>
     ELSE IF Len(results) < limit
     THEN [i \in 1..(Len(results) + Len(additional_entries)) |->
             Summary((results \o additional_entries)[i])]
     ELSE [i \in 1..Len(results) |-> Summary(results[i])]

SearchByText ==
  /\ Idle
  /\ \E query \in Queries, limit \in 0..MaxLimit, fails \in BOOLEAN :
       \E meta_order \in Perms(Len(entry_metadata)),
          content_order \in Perms(Len(entry_content)) :
         /\ last' = [op |-> "search_by_text", query |-> query, limit |-> limit,
                     fails |-> fails,
                     results |-> search_by_text(entry_metadata, entry_content, query,
                                                limit, meta_order, content_order, fails)]
         /\ UNCHANGED <<entry_metadata, entry_content>>

\* The stores SpecSearch starts from: for each of three entries, no row at
\* all, or a metadata row with or without its content row (save_entry leaves
\* a metadata row alone when its content insert raises).
SearchIds == <<"kant", "hume", "plato">>
SearchMarkdowns == {<<"k">>, <<"h">>}

StoredOptions ==
  {[present |-> FALSE, title |-> <<"h">>, markdown |-> <<"h">>, has_content |-> FALSE]}
  \cup {[present |-> TRUE, title |-> t, markdown |-> m, has_content |-> hc] :
          t \in Titles, m \in SearchMarkdowns, hc \in BOOLEAN}

NoEmbeddings ==
  [title_embedding |-> None, content_embedding |-> None,
   attempted |-> TRUE, raised |-> FALSE]

RECURSIVE MetadataOf(_, _)
MetadataOf(f, i) ==
  IF i > Len(SearchIds) THEN <<>>
  ELSE (IF f[i].present
        THEN <<MetadataRow(SearchIds[i], Article(f[i].title, f[i].markdown), NoEmbeddings)>>
        ELSE <<>>) \o MetadataOf(f, i + 1)

RECURSIVE ContentOf(_, _)
ContentOf(f, i) ==
  IF i > Len(SearchIds) THEN <<>>
  ELSE (IF f[i].present /\ f[i].has_content
        THEN <<ContentRow(SearchIds[i], Article(f[i].title, f[i].markdown))>>
        ELSE <<>>) \o ContentOf(f, i + 1)

InitSearch ==
  /\ \E f \in [1..Len(SearchIds) -> StoredOptions] :
       /\ entry_metadata = MetadataOf(f, 1)
       /\ entry_content = ContentOf(f, 1)
  /\ last = [op |-> "idle"]

\* The entries whose title matches, and those whose markdown matches.
TitleMatches(query) ==
  {entry_metadata[i].entry_id :
     i \in {j \in DOMAIN entry_metadata : ILike(entry_metadata[j].title, query)}}

BodyMatches(query) ==
  {entry_content[i].entry_id :
     i \in {j \in DOMAIN entry_content : ILike(entry_content[j].markdown, query)}}

SearchCase == last.op = "search_by_text" /\ ~last.fails /\ last.limit >= 1

\* C3: when T entries match by title, T < limit, and at least limit - T
\* further entries match by body only, the result has exactly limit entries:
\* the T title matches followed by limit - T body-only matches.
C3_FillsUpToLimit ==
  SearchCase =>
    LET T == Cardinality(TitleMatches(last.query))
        bodyOnly == BodyMatches(last.query) \ TitleMatches(last.query)
    IN T < last.limit /\ Cardinality(bodyOnly) >= last.limit - T =>
         /\ Len(last.results) = last.limit
         /\ \A i \in 1..T : last.results[i].entry_id \in TitleMatches(last.query)
         /\ \A i \in (T + 1)..last.limit : last.results[i].entry_id \in bodyOnly

\* C4: the result of search_by_text holds no entry_id twice, has at most limit
\* entries, and every title match precedes every entry added because only its
\* body matched.
C4_NoDuplicatesOrdered ==
  SearchCase =>
    /\ Len(last.results) <= last.limit
    /\ \A i, j \in 1..Len(last.results) :
         i # j => last.results[i].entry_id # last.results[j].entry_id
    /\ \A i \in 1..Len(last.results) :
         \/ last.results[i].entry_id \in TitleMatches(last.query)
         \/ last.results[i].entry_id \in BodyMatches(last.query)
    /\ \A i, j \in 1..Len(last.results) :
         /\ i < j
         /\ last.results[j].entry_id \in TitleMatches(last.query)
         => last.results[i].entry_id \in TitleMatches(last.query)

\* A result of one title match followed by one body-only match, from a store
\* in which the title match also matches by body.
C4_Witness ==
  /\ SearchCase
  /\ last.limit = 3
  /\ Len(last.results) = 2
  /\ last.results[1].entry_id \in TitleMatches(last.query) \cap BodyMatches(last.query)
  /\ last.results[2].entry_id \in BodyMatches(last.query) \ TitleMatches(last.query)

----------------------------------------------------------------------------
(* supabase_client.py: regenerate_embeddings                               *)

\* What the environment does while one entry of the page is processed: the
\* content read returns or raises, the remote embedding calls succeed or
\* fail, generate_article_embeddings raises or not, and the vector update
\* returns the updated rows ("ok"), returns no row ("no_row") or raises.
Scenario(read, to, co, gen_raises, update) ==
  [read |-> read, title_outcomes |-> to, content_outcomes |-> co,
   gen_raises |-> gen_raises, update |-> update]

RegenScenarios ==
  {Scenario("ok", SecondOk, SecondOk, FALSE, "ok"),
   Scenario("ok", SecondOk, AllFail, FALSE, "ok"),
   Scenario("ok", AllFail, AllFail, FALSE, "ok"),
   Scenario("raises", SecondOk, SecondOk, FALSE, "ok"),
   Scenario("ok", SecondOk, SecondOk, TRUE, "ok"),
   Scenario("ok", SecondOk, SecondOk, FALSE, "raises"),
   Scenario("ok", SecondOk, SecondOk, FALSE, "no_row")}

\* order("updated_at", desc=True).range(offset, offset + limit - 1): the rows
\* offset .. offset + limit - 1 (from 0) of the ordered table.
Range(rows, offset, limit) ==
  SubSeq(rows, offset + 1, Min(Len(rows), offset + limit))

\* update(update_data).eq("entry_id", entry_id): the embedding columns the
\* dict holds are overwritten.
UpdateEmbeddings(table, entry_id, g) ==
  [i \in 1..Len(table) |->
     IF table[i].entry_id = entry_id
     THEN [table[i] EXCEPT
             !.title_embedding =
                IF g.title_embedding # None THEN g.title_embedding ELSE @,
             !.content_embedding =
                IF g.content_embedding # None THEN g.content_embedding ELSE @]
     ELSE table[i]]

\* One step of the log regenerate_embeddings leaves: the entry and what
\* became of it.
Logged(log, entry, what) == Append(log, [entry_id |-> entry.entry_id, what |-> what])

\* `for entry in entries`, from entry i on.  st: the metadata table, the two
\* counters and the log so far.  A content read that raises is outside the
\* inner try: it ends the loop and the call in the outer handler, which
\* returns the counters and "error", without total_processed.
RECURSIVE RegenLoop(_, _, _, _, _)
RegenLoop(st, content, entries, env, i) ==
  IF i > Len(entries)
  THEN [st EXCEPT !.has_total = TRUE, !.total_processed = Len(entries)]
  ELSE
    LET entry == entries[i]
        sc == env[i]
        rows == RowsOf(content, entry.entry_id)
        fail(what) == RegenLoop([st EXCEPT !.failure_count = @ + 1,
                                           !.log = Logged(@, entry, what)],
                                content, entries, env, i + 1)
    IN IF sc.read = "raises" THEN [st EXCEPT !.error = TRUE]
       ELSE IF rows = <<>> THEN fail("no_content")
       ELSE IF ~Truthy(rows[1].markdown) THEN fail("no_markdown")
       ELSE
         LET g == generate_article_embeddings(entry.title, rows[1].markdown, HasApiKey,
                                              sc.title_outcomes, sc.content_outcomes)
             updated == RowsOf(st.metadata, entry.entry_id)
         IN IF sc.gen_raises \/ g.raised THEN fail("raised")
            ELSE IF g.title_embedding = None /\ g.content_embedding = None
            THEN fail("no_embeddings")
            ELSE IF sc.update = "raises" THEN fail("raised")
            ELSE IF sc.update = "no_row" \/ updated = <<>> THEN fail("no_row")
            ELSE RegenLoop([st EXCEPT
                              !.metadata = UpdateEmbeddings(@, entry.entry_id, g),
                              !.success_count = @ + 1,
                              !.log = Logged(@, entry, "updated")],
                           content, entries, env, i + 1)

\* regenerate_embeddings reporting the page size asked for as
\* total_processed.
regenerate_embeddings_reports_limit(metadata, content, limit, offset, order, list_fails, env) ==
  LET entries == Range(Scan(metadata, order), offset, limit)
      first == [metadata |-> metadata, success_count |-> 0, failure_count |-> 0,
                log |-> <<>>, has_total |-> FALSE, total_processed |-> 0,
                error |-> FALSE, entries |-> entries]
      r == RegenLoop(first, content, entries, env, 1)
  IN IF list_fails THEN [first EXCEPT !.error = TRUE, !.entries = <<>>]
     ELSE IF r.has_total THEN [r EXCEPT !.total_processed = limit]
     ELSE r

\* regenerate_embeddings(limit, offset).  order: the order of the metadata
\* rows by updated_at, newest first; list_fails: the select of the page
\* raises; env[i]: the environment while entry i of the page is processed.
regenerate_embeddings(metadata, content, limit, offset, order, list_fails, env) ==
  LET entries == Range(Scan(metadata, order), offset, limit)
      first == [metadata |-> metadata, success_count |-> 0, failure_count |-> 0,
                log |-> <<>>, has_total |-> FALSE, total_processed |-> 0,
                error |-> FALSE, entries |-> entries]
  IN IF list_fails THEN [first EXCEPT !.error = TRUE, !.entries = <<>>]
     ELSE RegenLoop(first, content, entries, env, 1)

RegenerateEmbeddings ==
  /\ Idle
  /\ \E limit \in 1..MaxPage, offset \in 0..1, list_fails \in BOOLEAN :
       \E order \in Perms(Len(entry_metadata)) :
         \E env \in [1..Len(Range(entry_metadata, offset, limit)) -> RegenScenarios] :
           LET r == regenerate_embeddings(entry_metadata, entry_content, limit, offset,
                                          order, list_fails, env)
           IN /\ entry_metadata' = r.metadata
              /\ last' = [op |-> "regenerate_embeddings", limit |-> limit,
                          offset |-> offset, list_fails |-> list_fails, env |-> env,
                          entries |-> [i \in 1..Len(r.entries) |-> r.entries[i].entry_id],
                          success_count |-> r.success_count,
                          failure_count |-> r.failure_count,
                          has_total |-> r.has_total,
                          total_processed |-> r.total_processed,
                          error |-> r.error, log |-> r.log]
              /\ UNCHANGED entry_content

\* The stores SpecRegen starts from: for each of three entries, no row, a
\* metadata row with a content row holding markdown, a metadata row with a
\* content row whose markdown is empty, or a metadata row alone.
RegenOptions ==
  {[present |-> FALSE, title |-> <<"h">>, markdown |-> <<"h">>, has_content |-> FALSE],
   [present |-> TRUE, title |-> <<"K">>, markdown |-> <<"k">>, has_content |-> TRUE],
   [present |-> TRUE, title |-> <<"h">>, markdown |-> <<>>, has_content |-> TRUE],
   [present |-> TRUE, title |-> <<"K">>, markdown |-> <<"k">>, has_content |-> FALSE]}

InitRegen ==
  /\ \E f \in [1..Len(SearchIds) -> RegenOptions] :
       /\ entry_metadata = MetadataOf(f, 1)
       /\ entry_content = ContentOf(f, 1)
  /\ last = [op |-> "idle"]

RegenCase == last.op = "regenerate_embeddings" /\ ~last.list_fails

\* C9: a failure while one entry of the page is processed (its content read
\* failing, its body missing, its embedding failing, its vector update
\* failing) does not abort the batch: every entry of the page is processed
\* and the summary includes total_processed.
C9_FailuresIsolated ==
  RegenCase =>
    /\ last.has_total
    /\ last.total_processed = Len(last.entries)
    /\ Len(last.log) = Len(last.entries)
    /\ \A i \in 1..Len(last.entries) : last.log[i].entry_id = last.entries[i]

\* Entry i of the page is one the claim counts as a success: it has a content
\* record with markdown, at least one of its two embeddings is generated,
\* nothing raises and the update reports an updated row.
Succeeds(i) ==
  LET id == last.entries[i]
      sc == last.env[i]
      c == RowsOf(entry_content, id)
      m == RowsOf(entry_metadata, id)
      made(text, outcomes) ==
        generate_embedding(text, HasApiKey, DefaultMaxRetries, outcomes).result # None
  IN /\ c # <<>> /\ c[1].markdown # <<>>
     /\ ~sc.gen_raises /\ sc.update = "ok"
     /\ \/ made(m[1].title, sc.title_outcomes)
        \/ made(c[1].markdown, sc.content_outcomes)

TotalCase == RegenCase /\ last.has_total

\* C20: when regenerate_embeddings returns a summary with total_processed,
\* success_count + failure_count = total_processed = the number of entries in
\* the page: every entry is counted exactly once, as a failure when its
\* content record or markdown is missing, when neither embedding could be
\* generated, when the update reports no updated row or when processing
\* raises, and as a success otherwise (also with one embedding only).
C20_EveryEntryCounted ==
  TotalCase =>
    LET n == Len(last.entries)
        rest == Len(entry_metadata) - last.offset
        ok == {i \in 1..n : Succeeds(i)}
    IN /\ n = Min(last.limit, IF rest > 0 THEN rest ELSE 0)
       /\ last.total_processed = n
       /\ last.success_count + last.failure_count = last.total_processed
       /\ last.success_count = Cardinality(ok)
       /\ last.failure_count = n - Cardinality(ok)
       /\ Len(last.log) = n
       /\ \A i \in 1..n : /\ last.log[i].entry_id = last.entries[i]
                           /\ (last.log[i].what = "updated") <=> (i \in ok)

\* A page of two entries: one succeeds with its title embedding only, the
\* other fails.
C20_Witness ==
  /\ TotalCase /\ Len(last.entries) = 2
  /\ last.success_count = 1 /\ last.failure_count = 1
  /\ \E i \in 1..2 : /\ last.env[i].content_outcomes = AllFail
                      /\ last.log[i].what = "updated"

----------------------------------------------------------------------------
(* URLs.  A URL is the sequence of its tokens: the separator "/" and the   *)
(* maximal runs of other characters between separators, each run one       *)
(* string ("https:", "kant", "?q=1"); no two runs are adjacent.            *)

Slash == "/"

\* "https://plato.stanford.edu/entries/"
UrlPrefix == <<"https:", "/", "/", "plato.stanford.edu", "/", "entries", "/">>
OtherDomain == <<"https:", "/", "/", "other.example", "/", "entries", "/">>
PlainHttp == <<"http:", "/", "/", "plato.stanford.edu", "/", "entries", "/">>

\* What follows the domain and "entries/" in the URLs the model supplies:
\* an entry segment with and without the trailing slash, nothing, a further
\* path segment, a query string.
UrlTails ==
  {<<"kant", "/">>, <<"kant">>, <<>>,
   <<"kant", "/", "notes.html">>, <<"kant", "/", "?q=1">>}

Urls == {UrlPrefix \o t : t \in UrlTails}
        \cup {OtherDomain \o <<"kant", "/">>, PlainHttp \o <<"kant", "/">>}

\* str.startswith(prefix)
StartsWith(url, prefix) ==
  Len(url) >= Len(prefix) /\ SubSeq(url, 1, Len(prefix)) = prefix

\* str.rstrip("/")
RECURSIVE RStrip(_)
RStrip(url) ==
  IF url # <<>> /\ url[Len(url)] = Slash THEN RStrip(SubSeq(url, 1, Len(url) - 1)) ELSE url

\* str.split("/"): the strings between the separators, "" where two
\* separators are adjacent or the URL starts or ends with one.
RECURSIVE SplitFrom(_, _, _)
SplitFrom(url, parts, current) ==
  IF url = <<>> THEN Append(parts, current)
  ELSE IF Head(url) = Slash THEN SplitFrom(Tail(url), Append(parts, current), "")
  ELSE SplitFrom(Tail(url), parts, Head(url))

Split(url) == SplitFrom(url, <<>>, "")

\* parts = url.rstrip("/").split("/"); entry_id = parts[-1]
EntryIdOf(url) == LET parts == Split(RStrip(url)) IN parts[Len(parts)]

----------------------------------------------------------------------------
(* simple_scraper.py                                                       *)

\* Heading elements of a document, in document order: rank (h1..h6), the id
\* attribute (None when the element has none) and the text.
SampleHeadings ==
  <<[rank |-> 1, id |-> "top", text |-> "Kant"],
    [rank |-> 2, id |-> "a", text |-> "Intro"],
    [rank |-> 3, id |-> None, text |-> "NoId"],
    [rank |-> 3, id |-> "b", text |-> "Sub"]>>

\* A parsed document (soup): the h1.title element, whether #main-content,
\* .aueditable and <body> exist, whether the body holds #header, #footer,
\* script or style elements, the headings of the content, and the texts the
\* metadata is taken from.
Docs ==
  [title_elem : {[present |-> TRUE, text |-> <<"K">>], [present |-> FALSE, text |-> <<>>]},
   main : BOOLEAN, aueditable : BOOLEAN, body : BOOLEAN, chrome : BOOLEAN,
   headings : {SampleHeadings},
   preamble : {"A preamble"}, date_issued : {"Thu May 20, 2010"},
   date_modified : {"Tue Jul 28, 2020"}, authors : {<<"Entry by", ":", " ", "Jane", " ", "Doe", ",", " ", "Smith">>}]

\* What session.get and raise_for_status do: the page is returned, the
\* status is an error, or the request raises.
FetchOutcomes == {"ok", "http_error", "network_error"}

\* entry_id.replace("-", " ").title(): the fallback title.
Humanize(entry_id) == <<"humanized", entry_id>>

\* The text of the #aueditor element is a sequence of tokens: the words
\* "Entry by", "and" and the words of names, the characters ":", ",", "&"
\* and the blank.  A word stands for a run of letters, so "and" is never part
\* of a longer word.

\* The number of whitespace tokens of s from position i on.
RECURSIVE WsRun(_, _)
WsRun(s, i) ==
  IF i <= Len(s) /\ s[i] \in Whitespace THEN 1 + WsRun(s, i + 1) ELSE 0

\* re.sub(r"^Entry by\s*:\s*", "", text)
StripEntryBy(s) ==
  IF s # <<>> /\ s[1] = "Entry by"
  THEN LET w == WsRun(s, 2) IN
       IF 2 + w <= Len(s) /\ s[2 + w] = ":"
       THEN SubSeq(s, 3 + w + WsRun(s, 3 + w), Len(s))
       ELSE s
  ELSE s

\* The length of the match of r",\s*|\s+and\s+|\s*&\s*" that starts at
\* position i, 0 when none does; the alternatives are tried in this order.
SeparatorAt(s, i) ==
  LET w == WsRun(s, i) IN
  IF s[i] = "," THEN 1 + WsRun(s, i + 1)
  ELSE IF /\ w >= 1 /\ i + w <= Len(s) /\ s[i + w] = "and"
          /\ WsRun(s, i + w + 1) >= 1
  THEN w + 1 + WsRun(s, i + w + 1)
  ELSE IF i + w <= Len(s) /\ s[i + w] = "&"
  THEN w + 1 + WsRun(s, i + w + 1)
  ELSE 0

\* re.split(pattern, s): the pieces between the matches, found left to right.
RECURSIVE ReSplit(_, _, _, _)
ReSplit(s, i, piece, pieces) ==
  IF i > Len(s) THEN Append(pieces, piece)
  ELSE LET m == SeparatorAt(s, i) IN
       IF m > 0 THEN ReSplit(s, i + m, <<>>, Append(pieces, piece))
       ELSE ReSplit(s, i + 1, Append(piece, s[i]), pieces)

\* The authors of _extract_metadata: the text stripped, the prefix removed,
\* the rest split, each piece stripped, the empty pieces dropped.
parse_authors(text) ==
  LET author_parts == ReSplit(StripEntryBy(Strip(text)), 1, <<>>, <<>>)
      stripped == [i \in 1..Len(author_parts) |-> Strip(author_parts[i])]
  IN SelectSeq(stripped, LAMBDA a : a # <<>>)

\* _extract_metadata(soup)
extract_metadata(doc) ==
  [preamble |-> doc.preamble, date_issued |-> doc.date_issued,
   date_modified |-> doc.date_modified, authors |-> parse_authors(doc.authors)]

\* The names and separators author lines are built from in SpecAuthors.
AuthorNames == {<<"Jane", " ", "Doe">>, <<"Smith">>}
AuthorSeparators ==
  {<<",", " ">>, <<" ", "and", " ">>, <<" ", "&", " ">>, <<"&">>,
   <<",", " ", "and", " ">>}
AuthorPrefixes == {<<>>, <<"Entry by", ":", " ">>}

\* names[1] seps[1] names[2] ... names[n]
RECURSIVE JoinNames(_, _, _)
JoinNames(names, seps, i) ==
  IF i > Len(names) THEN <<>>
  ELSE (IF i > 1 THEN seps[i - 1] ELSE <<>>) \o names[i] \o JoinNames(names, seps, i + 1)

ParseAuthors ==
  /\ Idle
  /\ \E n \in 1..MaxAuthors, prefix \in AuthorPrefixes :
       \E names \in [1..n -> AuthorNames], seps \in [1..(n - 1) -> AuthorSeparators] :
         LET text == prefix \o JoinNames(names, seps, 1) IN
         /\ last' = [op |-> "parse_authors", text |-> text, names |-> names,
                     seps |-> seps, authors |-> parse_authors(text)]
         /\ UNCHANGED <<entry_metadata, entry_content>>

AuthorsCase == last.op = "parse_authors"

\* C17: author parsing strips a leading 'Entry by:' and splits the rest at
\* every comma, every word 'and' and every ampersand: for every input built
\* from names joined by these separators (including a comma directly followed
\* by 'and') the result is exactly the list of names, trimmed, in source
\* order, with duplicates kept and no empty fragment.
C17_AuthorsAreTheNames ==
  AuthorsCase => last.authors = last.names


\* _extract_toc with the headings that have no id kept.
extract_toc_no_skip(content_elem, headings) ==
  IF content_elem = None THEN <<>>
  ELSE LET ranked == SelectSeq(headings, LAMBDA h : h.rank \in 2..6)
       IN [i \in 1..Len(ranked) |->
             [id |-> ranked[i].id, text |-> ranked[i].text,
              level |-> ranked[i].rank - 1]]

\* _extract_toc(content_elem): the h2..h6 headings that carry an id, in
\* document order, with level = rank - 1; [] when there is no element.
extract_toc(content_elem, headings) ==
  IF content_elem = None THEN <<>>
  ELSE LET ranked == SelectSeq(headings, LAMBDA h : h.rank \in 2..6)
           with_id == SelectSeq(ranked, LAMBDA h : h.id # None /\ h.id # "")
       IN [i \in 1..Len(with_id) |->
             [id |-> with_id[i].id, text |-> with_id[i].text,
              level |-> with_id[i].rank - 1]]

\* The heading elements SpecToc builds fragments from: h1, h2, h3 and h6,
\* without an id attribute, with an empty one, with id "a" or "b".
HeadingElems ==
  [rank : {1, 2, 3, 6}, id : {None, "", "a", "b"}, text : {"T"}]

ExtractToc ==
  /\ Idle
  /\ \E headings \in SeqsUpTo(HeadingElems, MaxHeadings),
        content_elem \in {"main-content", None} :
       /\ content_elem = None => headings = <<>>
       /\ last' = [op |-> "extract_toc", content_elem |-> content_elem,
                   headings |-> headings,
                   toc |-> extract_toc(content_elem, headings)]
       /\ UNCHANGED <<entry_metadata, entry_content>>

\* The positions of the headings of rank 2 to 6 that carry an id.
Listed(headings) ==
  {i \in DOMAIN headings :
     headings[i].rank \in 2..6 /\ headings[i].id \notin {None, ""}}

TocCase == last.op = "extract_toc" /\ last.content_elem # None

\* C13: extract_toc returns exactly the headings of rank 2 to 6 that carry
\* an id, in document order, each with level = rank - 1; headings without
\* an id are skipped and cause no error.
C13_TocListsIdHeadings ==
  TocCase =>
    LET L == Listed(last.headings) IN
    /\ Len(last.toc) = Cardinality(L)
    /\ \A i \in L :
         LET k == Cardinality({j \in L : j <= i}) IN
         /\ last.toc[k].id = last.headings[i].id
         /\ last.toc[k].level = last.headings[i].rank - 1

\* h2#a, h3 without id, h3#b gives (a, level 1), (b, level 2).
C13_Witness ==
  /\ TocCase
  /\ last.headings = <<[rank |-> 2, id |-> "a", text |-> "T"],
                       [rank |-> 3, id |-> None, text |-> "T"],
                       [rank |-> 3, id |-> "b", text |-> "T"]>>
  /\ last.toc = <<[id |-> "a", text |-> "T", level |-> 1],
                  [id |-> "b", text |-> "T", level |-> 2]>>

\* The content element chosen with the body tried first.
ContentElemBodyFirst(doc) ==
  IF doc.body THEN "body"
  ELSE IF doc.main THEN "main-content"
  ELSE IF doc.aueditable THEN "aueditable"
  ELSE None

\* The content element _process_content settles on: #main-content, else
\* .aueditable, else the body, else None.
ContentElem(doc) ==
  IF doc.main THEN "main-content"
  ELSE IF doc.aueditable THEN "aueditable"
  ELSE IF doc.body THEN "body"
  ELSE None

\* str(content_elem): the serialized element; str(None) is "None".
Serialized(content_elem) ==
  IF content_elem = "main-content" THEN "<div id=main-content>"
  ELSE IF content_elem = "aueditable" THEN "<div class=aueditable>"
  ELSE IF content_elem = "body" THEN "<body>"
  ELSE "None"

\* _process_content(soup): (processed_html, toc).  root is the element
\* chosen; decomposed tells whether elements of the body were removed, and
\* chrome_left whether the body still holds #header, #footer, script or style
\* elements afterwards.  Nothing here raises.
process_content(doc) ==
  LET content_elem == ContentElem(doc) IN
  [root |-> content_elem,
   html |-> Serialized(content_elem),
   toc |-> extract_toc(content_elem, doc.headings),
   decomposed |-> content_elem = "body" /\ doc.chrome,
   chrome_left |-> doc.chrome /\ content_elem # "body",
   raised |-> FALSE]

ProcessContent ==
  /\ Idle
  /\ \E doc \in Docs :
       LET r == process_content(doc) IN
       /\ last' = [op |-> "process_content", doc |-> doc, root |-> r.root,
                   html |-> r.html, toc |-> r.toc, decomposed |-> r.decomposed,
                   chrome_left |-> r.chrome_left]
       /\ UNCHANGED <<entry_metadata, entry_content>>

RootCase == last.op = "process_content"

\* C15: the content root is the main-content element when the document has
\* one; otherwise the author-editable element when it has one; otherwise the
\* body with its header, footer, script and style elements removed; a
\* lower-priority root is never chosen while a higher-priority one is present,
\* and the body is modified only in the third case.
C15_RootPriority ==
  RootCase =>
    LET d == last.doc IN
    /\ d.main => last.root = "main-content"
    /\ ~d.main /\ d.aueditable => last.root = "aueditable"
    /\ ~d.main /\ ~d.aueditable /\ d.body => last.root = "body" /\ ~last.chrome_left
    /\ last.root = "aueditable" => ~d.main
    /\ last.root = "body" => ~d.main /\ ~d.aueditable
    /\ d.main \/ d.aueditable => ~last.decomposed /\ last.chrome_left = d.chrome

\* A document with all three candidates, whose body holds header, footer,
\* script or style elements: the main-content element is chosen and the body
\* is left alone.
C15_Witness ==
  /\ RootCase /\ last.doc.main /\ last.doc.aueditable /\ last.doc.body
  /\ last.doc.chrome /\ last.root = "main-content" /\ last.chrome_left

\* convert_to_markdown(html) and hashlib.sha256(html.encode()).hexdigest():
\* functions of the html string.
convert_to_markdown(html) == <<"markdown", html>>
Sha256(html) == <<"sha256", html>>

\* scrape_article(url).  Whatever raises inside the try block is re-raised
\* as RuntimeError; otherwise the article data is returned.
scrape_article(url, fetch, doc) ==
  LET stripped == RStrip(url)
      entry_id == EntryIdOf(url)
      pc == process_content(doc)
      title == IF doc.title_elem.present THEN doc.title_elem.text ELSE Humanize(entry_id)
  IN IF fetch # "ok" \/ pc.raised
     THEN [raised |-> TRUE, fetched |-> stripped, data |-> <<>>]
     ELSE [raised |-> FALSE, fetched |-> stripped,
           data |-> <<[entry_id |-> entry_id, url |-> stripped, title |-> title,
                       content_hash |-> Sha256(pc.html),
                       metadata |-> extract_metadata(doc),
                       content |-> convert_to_markdown(pc.html),
                       toc |-> pc.toc, html_content |-> pc.html]>>]

ScrapeArticle ==
  /\ Idle
  /\ \E url \in Urls, fetch \in FetchOutcomes, doc \in Docs :
       LET r == scrape_article(url, fetch, doc) IN
       /\ last' = [op |-> "scrape_article", url |-> url, fetch |-> fetch, doc |-> doc,
                   raised |-> r.raised, data |-> r.data]
       /\ UNCHANGED <<entry_metadata, entry_content>>

HasRoot(doc) == doc.main \/ doc.aueditable \/ doc.body

ScrapeCase == last.op = "scrape_article" /\ last.fetch = "ok"

\* C5: a scrape of a document with neither a main-content element, nor an
\* author-editable element, nor a body fails and produces no article data;
\* for a document that has one of the three the scrape does not fail at
\* content-root selection.
C5_NoRootFails ==
  ScrapeCase =>
    /\ ~HasRoot(last.doc) => last.raised /\ last.data = <<>>
    /\ HasRoot(last.doc) => ~last.raised /\ Len(last.data) = 1

----------------------------------------------------------------------------
(* supabase_client.py: vector_search                                       *)

\* The rows match_entries can return for a search type: those whose
\* embedding column of that type is set.
Embedded(metadata, search_type) ==
  SelectSeq(metadata,
            LAMBDA r : IF search_type = "title" THEN r.title_embedding # None
                       ELSE r.content_embedding # None)

\* vector_search with the nearest-neighbour query issued whatever the
\* embedding of the query is.
vector_search_queries_anyway(metadata, query, limit, search_type, api_key, outcomes, rpc_fails, order, hits) ==
  LET e == generate_embedding(query, api_key, DefaultMaxRetries, outcomes)
      rows == Limit(Embedded(Scan(metadata, order), search_type), Min(hits, limit))
  IN IF rpc_fails
     THEN [results |-> <<>>, embedding |-> e.result, embed_calls |-> e.calls,
           rpc_called |-> TRUE, raised |-> FALSE]
     ELSE [results |-> [i \in 1..Len(rows) |-> Summary(rows[i])],
           embedding |-> e.result, embed_calls |-> e.calls,
           rpc_called |-> TRUE, raised |-> FALSE]

\* vector_search(query, limit, search_type, similarity_threshold).  The
\* ranking of match_entries is the datastore's: of the rows it ranks (in
\* `order`), `hits` reach the threshold.  rpc_fails: the rpc call raises.
\* Whatever is raised inside is caught by the function's own handler.
vector_search(metadata, query, limit, search_type, api_key, outcomes, rpc_fails, order, hits) ==
  LET e == generate_embedding(query, api_key, DefaultMaxRetries, outcomes)
      rows == Limit(Embedded(Scan(metadata, order), search_type), Min(hits, limit))
  IN IF e.raised \/ e.result = None
     THEN [results |-> <<>>, embedding |-> e.result, embed_calls |-> e.calls,
           rpc_called |-> FALSE, raised |-> FALSE]
     ELSE IF rpc_fails
     THEN [results |-> <<>>, embedding |-> e.result, embed_calls |-> e.calls,
           rpc_called |-> TRUE, raised |-> FALSE]
     ELSE [results |-> [i \in 1..Len(rows) |-> Summary(rows[i])],
           embedding |-> e.result, embed_calls |-> e.calls,
           rpc_called |-> TRUE, raised |-> FALSE]

\* The queries handed to vector_search: a word, blanks, the empty text.
GatewayQueries == {<<"k">>, <<" ">>, <<>>}

VectorSearch ==
  /\ Idle
  /\ \E query \in GatewayQueries, limit \in 1..MaxLimit, api_key \in BOOLEAN,
        search_type \in {"content", "title"}, outcomes \in StoreOutcomes,
        rpc_fails \in BOOLEAN, hits \in 0..Len(entry_metadata) :
       \E order \in Perms(Len(entry_metadata)) :
         LET r == vector_search(entry_metadata, query, limit, search_type, api_key,
                                outcomes, rpc_fails, order, hits)
         IN /\ last' = [op |-> "vector_search", query |-> query, limit |-> limit,
                        search_type |-> search_type, api_key |-> api_key,
                        outcomes |-> outcomes, rpc_fails |-> rpc_fails,
                        embedding |-> r.embedding, embed_calls |-> r.embed_calls,
                        rpc_called |-> r.rpc_called, results |-> r.results,
                        raised |-> r.raised]
            /\ UNCHANGED <<entry_metadata, entry_content>>

\* The stores SpecVector starts from: for each of two entries no row, or a
\* metadata row holding no embedding, the title embedding or both.
VectorIds == <<"kant", "hume">>
EmbeddingOptions ==
  {[present |-> FALSE, title_embedding |-> None, content_embedding |-> None]}
  \cup {[present |-> TRUE, title_embedding |-> t, content_embedding |-> c] :
          t \in {None, "v1"}, c \in {None, "v2"}}

RECURSIVE EmbeddedRows(_, _)
EmbeddedRows(f, i) ==
  IF i > Len(VectorIds) THEN <<>>
  ELSE (IF f[i].present
        THEN <<MetadataRow(VectorIds[i], Article(<<"K">>, <<"k">>),
                           [title_embedding |-> f[i].title_embedding,
                            content_embedding |-> f[i].content_embedding])>>
        ELSE <<>>) \o EmbeddedRows(f, i + 1)

InitVector ==
  /\ \E f \in [1..Len(VectorIds) -> EmbeddingOptions] :
       entry_metadata = EmbeddedRows(f, 1)
  /\ entry_content = <<>>
  /\ last = [op |-> "idle"]

VectorGatewayCase == last.op = "vector_search"

\* C12: vector_search returns an empty result and raises nothing whenever
\* embedding the query yields absent (blank query, missing API key, or all
\* retries failed), and then issues no nearest-neighbour query.
C12_NoEmbeddingNoQuery ==
  VectorGatewayCase
  /\ (\/ last.query = <<>>
      \/ \A i \in DOMAIN last.query : last.query[i] \in Whitespace
      \/ ~last.api_key
      \/ \A k \in DOMAIN last.outcomes : last.outcomes[k] = "fail"
      \/ last.embedding = None)
  => last.results = <<>> /\ ~last.raised /\ ~last.rpc_called

\* All three calls of the embedding service failed for a non-blank query,
\* with an API key and rows that could have matched.
C12_Witness ==
  /\ VectorGatewayCase /\ last.query = <<"k">> /\ last.api_key
  /\ last.embed_calls = DefaultMaxRetries /\ last.embedding = None
  /\ Embedded(entry_metadata, last.search_type) # <<>>
  /\ last.results = <<>> /\ ~last.rpc_called

----------------------------------------------------------------------------
(* simple_api.py                                                           *)

\* similarity_threshold in tenths: 0.3 is 3, 1 is ThresholdOne.
ThresholdOne == 10
Thresholds == {-1, 0, 3, ThresholdOne, ThresholdOne + 1}
SearchTypes == {"content", "title", "body"}
VectorQueries == {<<"k">>}

\* GET /vector-search.  The HTTPException(400) of a failed validation is
\* raised inside the try block, whose only handler is `except Exception`:
\* it is caught there and answered as 500.
vector_search_endpoint(metadata, query, limit, search_type, similarity_threshold, outcomes, rpc_fails, order, hits) ==
  LET raised400 == \/ search_type \notin {"content", "title"}
                   \/ similarity_threshold < 0
                   \/ similarity_threshold > ThresholdOne
      r == vector_search(metadata, query, limit, search_type, HasApiKey, outcomes,
                         rpc_fails, order, hits)
  IN IF raised400
     THEN [status |-> 500, db_called |-> FALSE, results |-> <<>>]
     ELSE [status |-> 200, db_called |-> TRUE, results |-> r.results]

VectorSearchEndpoint ==
  /\ Idle
  /\ \E query \in VectorQueries, limit \in 1..2, search_type \in SearchTypes,
        similarity_threshold \in Thresholds, outcomes \in StoreOutcomes,
        rpc_fails \in BOOLEAN, hits \in 0..Len(entry_metadata) :
       \E order \in Perms(Len(entry_metadata)) :
         LET r == vector_search_endpoint(entry_metadata, query, limit, search_type,
                                         similarity_threshold, outcomes, rpc_fails,
                                         order, hits)
         IN /\ last' = [op |-> "vector_search_endpoint", query |-> query,
                        limit |-> limit, search_type |-> search_type,
                        similarity_threshold |-> similarity_threshold,
                        status |-> r.status, db_called |-> r.db_called,
                        results |-> r.results]
            /\ UNCHANGED <<entry_metadata, entry_content>>

\* GET /entry?url=...: 400 unless the URL starts with the prefix; then the
\* entry is looked up under the last part of the URL.
get_entry_endpoint(metadata, content, url, read_fails) ==
  LET entry_id == EntryIdOf(url)
      entry == get_entry(metadata, content, entry_id, read_fails)
  IN IF ~StartsWith(url, UrlPrefix)
     THEN [status |-> 400, entry_id |-> None, db_called |-> FALSE]
     ELSE IF ~entry.found
     THEN [status |-> 404, entry_id |-> entry_id, db_called |-> TRUE]
     ELSE [status |-> 200, entry_id |-> entry_id, db_called |-> TRUE]

GetEntryEndpoint ==
  /\ Idle
  /\ \E url \in Urls, read_fails \in BOOLEAN :
       LET r == get_entry_endpoint(entry_metadata, entry_content, url, read_fails) IN
       /\ last' = [op |-> "get_entry_endpoint", url |-> url, status |-> r.status,
                   entry_id |-> r.entry_id, db_called |-> r.db_called,
                   fetched |-> FALSE]
       /\ UNCHANGED <<entry_metadata, entry_content>>

\* What session.head does in entry_exists: the status of the response, or
\* the request raises.
HeadOutcomes == {"200", "404", "network_error"}

\* entry_exists with the probe's answer ignored.
entry_exists_always(url, head) == TRUE

\* entry_exists(url)
entry_exists(url, head) ==
  IF ~StartsWith(url, UrlPrefix) THEN FALSE ELSE head = "200"

\* The arguments scrape_url hands to save_entry.
ArticleOf(data) ==
  [title |-> data.title, markdown |-> data.content,
   date_issued |-> data.metadata.date_issued,
   date_modified |-> data.metadata.date_modified,
   preamble |-> data.metadata.preamble, content_hash |-> data.content_hash,
   html |-> data.html_content, toc |-> data.toc, authors |-> data.metadata.authors]

\* POST /scrape: validate the URL, probe it, scrape it, save the article.
\* steps: the external calls made, in order.  saved: what save_entry
\* returned (FALSE when it was not called).  embed_attempted: save_entry got
\* as far as generating embeddings (after its select).
scrape_url(metadata, content, url, head, fetch, doc, outcomes, fail_at) ==
  LET entry_id == EntryIdOf(url)
      s == scrape_article(url, fetch, doc)
      a == ArticleOf(s.data[1])
      emb == SaveEmbeddings(a, outcomes, outcomes, FALSE)
      saved == save_entry(metadata, content, entry_id, a, emb, fail_at)
      same == [metadata |-> metadata, content |-> content]
  IN IF ~StartsWith(url, UrlPrefix)
     THEN [status |-> 400, success |-> FALSE, entry_id |-> None, steps |-> <<>>,
           saved |-> FALSE, embed_attempted |-> FALSE, store |-> same]
     ELSE IF ~entry_exists(url, head)
     THEN [status |-> 404, success |-> FALSE, entry_id |-> entry_id,
           steps |-> <<"head">>, saved |-> FALSE, embed_attempted |-> FALSE,
           store |-> same]
     ELSE IF s.raised
     THEN [status |-> 500, success |-> FALSE, entry_id |-> entry_id,
           steps |-> <<"head", "get">>, saved |-> FALSE,
           embed_attempted |-> FALSE, store |-> same]
     ELSE [status |-> 200, success |-> saved.ret, entry_id |-> entry_id,
           steps |-> <<"head", "get", "save_entry">>, saved |-> saved.ret,
           embed_attempted |-> (emb.attempted /\ fail_at # 1),
           store |-> [metadata |-> saved.metadata, content |-> saved.content]]

\* The pages the site answers with in SpecApi: an article page with a title
\* and a main-content element, and a page with a title and no content root.
ApiDocs ==
  {d \in Docs : /\ d.title_elem.present /\ d.body = d.main
                /\ ~d.aueditable /\ ~d.chrome}

\* What the embedding service does during a scrape in SpecApi: its first
\* call fails and its second succeeds.
ScrapeOutcomes == {SecondOk}

ScrapeUrl ==
  /\ Idle
  /\ \E url \in Urls, head \in HeadOutcomes, fetch \in FetchOutcomes, doc \in ApiDocs,
        outcomes \in ScrapeOutcomes, fail_at \in 0..3 :
       LET r == scrape_url(entry_metadata, entry_content, url, head, fetch, doc,
                           outcomes, fail_at)
       IN /\ Len(r.store.metadata) <= MaxStored
          /\ entry_metadata' = r.store.metadata
          /\ entry_content' = r.store.content
          /\ last' = [op |-> "scrape_url", url |-> url, head |-> head,
                      fetch |-> fetch, has_root |-> HasRoot(doc), status |-> r.status,
                      success |-> r.success, entry_id |-> r.entry_id,
                      steps |-> r.steps, saved |-> r.saved,
                      embed_attempted |-> r.embed_attempted,
                      metadata_before |-> entry_metadata,
                      content_before |-> entry_content,
                      db_called |-> (\E i \in DOMAIN r.steps : r.steps[i] = "save_entry"),
                      fetched |-> r.steps # <<>>]

VectorCase == last.op = "vector_search_endpoint"

\* C2: GET /vector-search answers 400 whenever search_type is neither
\* 'content' nor 'title' and whenever similarity_threshold is below 0 or above
\* 1, and in neither case is the gateway's vector_search called.
C2_InvalidSearchIs400 ==
  VectorCase /\ (\/ last.search_type \notin {"content", "title"}
                 \/ last.similarity_threshold < 0
                 \/ last.similarity_threshold > ThresholdOne)
  => last.status = 400 /\ ~last.db_called

\* The URLs of the shape https://plato.stanford.edu/entries/{entry_id}/ (the
\* trailing slash may be missing), with one plain entry_id segment.
PlainSegments == {"kant", "hume"}
HasEntryShape(url) ==
  \E seg \in PlainSegments : url = UrlPrefix \o <<seg, Slash>> \/ url = UrlPrefix \o <<seg>>

UrlCase == last.op \in {"get_entry_endpoint", "scrape_url"}

\* C10: where an article URL is supplied (GET /entry, POST /scrape) it is
\* accepted only if it has the shape .../entries/{entry_id}/ with a single
\* non-empty entry_id segment, which is then the entry_id used; every other
\* URL is rejected with 400 before any fetch or datastore call.
C10_OnlyEntryUrlsAccepted ==
  UrlCase =>
    /\ HasEntryShape(last.url) =>
         last.status # 400 /\ last.entry_id \in PlainSegments
                           /\ last.url \in {UrlPrefix \o <<last.entry_id, Slash>>,
                                            UrlPrefix \o <<last.entry_id>>}
    /\ ~HasEntryShape(last.url) =>
         last.status = 400 /\ ~last.fetched /\ ~last.db_called

ScrapeUrlCase == last.op = "scrape_url"
Called(step) == \E i \in DOMAIN last.steps : last.steps[i] = step

\* C11: POST /scrape answers 400 when the URL does not start with the
\* required prefix, 404 when the existence probe reports no article, 200 with
\* success = false when fetch and extraction succeeded but save_entry returned
\* false, and 200 with success = true only when save_entry returned true.
C11_ScrapeStatuses ==
  ScrapeUrlCase =>
    /\ ~StartsWith(last.url, UrlPrefix) => last.status = 400
    /\ StartsWith(last.url, UrlPrefix) /\ last.head # "200" => last.status = 404
    /\ StartsWith(last.url, UrlPrefix) /\ last.head = "200" /\ last.fetch = "ok"
         /\ ~last.saved => last.status = 200 /\ ~last.success
    /\ last.status = 200 /\ last.success => Called("save_entry") /\ last.saved

\* A scrape whose fetch and extraction succeeded and whose save failed.
C11_Witness ==
  /\ ScrapeUrlCase /\ last.head = "200" /\ last.fetch = "ok"
  /\ Called("save_entry") /\ ~last.saved
  /\ last.status = 200 /\ ~last.success

\* A step of POST /scrape failed: the URL is not valid, the probe found no
\* article, the fetch failed, or there was no content root to extract.
StepFailed ==
  \/ ~StartsWith(last.url, UrlPrefix)
  \/ last.head # "200"
  \/ last.fetch # "ok"
  \/ ~last.has_root

\* C19: in POST /scrape the steps run in the order validate URL, existence
\* probe, fetch and extract, save_entry, each only if all earlier ones
\* succeeded: when validation fails, the probe returns false, or fetch or
\* extraction fails, no embedding call and no datastore read or write is made
\* and the stored records are unchanged.
C19_StepsGated ==
  ScrapeUrlCase =>
    /\ last.steps \in {<<>>, <<"head">>, <<"head", "get">>,
                       <<"head", "get", "save_entry">>}
    /\ ~StartsWith(last.url, UrlPrefix) => last.steps = <<>>
    /\ last.head # "200" => ~Called("get")
    /\ StepFailed =>
         /\ ~Called("save_entry") /\ ~last.embed_attempted
         /\ entry_metadata = last.metadata_before
         /\ entry_content = last.content_before

----------------------------------------------------------------------------
Init ==
  /\ entry_metadata = <<>>
  /\ entry_content = <<>>
  /\ last = [op |-> "idle"]

NextEmbed == GenerateEmbedding \/ GenerateArticleEmbeddings \/ Return

SpecEmbed == Init /\ [][NextEmbed]_vars

NextStore == SaveEntry \/ GetEntry \/ Return

SpecStore == Init /\ [][NextStore]_vars

NextSearch == SearchByText \/ Return

SpecSearch == InitSearch /\ [][NextSearch]_vars

NextRegen == RegenerateEmbeddings \/ Return

SpecRegen == InitRegen /\ [][NextRegen]_vars

NextScraper == ScrapeArticle \/ ProcessContent \/ Return

SpecScraper == Init /\ [][NextScraper]_vars

NextApi == VectorSearchEndpoint \/ GetEntryEndpoint \/ ScrapeUrl \/ Return

SpecApi == Init /\ [][NextApi]_vars

NextAuthors == ParseAuthors \/ Return

SpecAuthors == Init /\ [][NextAuthors]_vars

NextToc == ExtractToc \/ Return

SpecToc == Init /\ [][NextToc]_vars

NextVector == VectorSearch \/ Return

SpecVector == InitVector /\ [][NextVector]_vars

====
